---- MODULE Spec2Model ----
(***************************************************************************)
(* Model of acodeh: the prompt accumulator (src/prompt.rs, PromptBuilder)  *)
(* and the streaming generation client (src/llm.rs, LLMClient).            *)
(*                                                                         *)
(* Text is a sequence of segments <<tag, byte length>>; the byte length of *)
(* a text is the sum of its segments, so String::len() is computed and not *)
(* assumed.  Wire bytes are one-character strings, and a chunk is a        *)
(* sequence of them.                                                       *)
(***************************************************************************)
EXTENDS Integers, Sequences, FiniteSets, TLC

VARIABLES
    \* PromptBuilder fields (src/prompt.rs:16-22)
    prompt, files, documents, total_content_len, max_context,
    \* contents of prompt_context_templete.in, fixed for a run
    template,
    \* the last PromptBuilder call and what it returned
    last,
    \* generate_stream (src/llm.rs:61-105): position, transport, locals
    pc, wire, nxt, no_parsed_chunks, emitted, stopped, result,
    \* what the backend answered, the payload of an API error, the frame
    \* generate_once returns
    response, payload, generated,
    \* on_chunk invocations that have completed; a pull has failed
    completed, pull_failed,
    \* main (src/main.rs:147-190): the candidates paths_iter yields and the
    \* index of the next one; its locals total_content_len, documents and
    \* max_context are the variables of those names, its position is pc
    paths_iter, path_idx

promptVars == <<prompt, files, documents, total_content_len, max_context, template, last>>
streamVars == <<pc, wire, nxt, no_parsed_chunks, emitted, stopped, result,
                response, payload, generated, completed, pull_failed>>
vars == <<prompt, files, documents, total_content_len, max_context, template, last,
          pc, wire, nxt, no_parsed_chunks, emitted, stopped, result,
          response, payload, generated, completed, pull_failed,
          paths_iter, path_idx>>
cliVars == <<paths_iter, path_idx>>

----------------------------------------------------------------------------
(* Bounds *)

\* most fragments one accumulator admits
MaxFragments == 2
\* most records the backend writes in one exchange
MaxRecords == 2
\* most chunks the transport cuts the body into
MaxChunks == 3
\* most candidate paths the enumeration yields
MaxCandidates == 4

----------------------------------------------------------------------------
(* Option<u64> *)

None == [some |-> FALSE, v |-> 0]
Some(x) == [some |-> TRUE, v |-> x]

\* Option::or (src/prompt.rs:59, 75)
OptionOr(a, b) == IF a.some THEN a ELSE b

----------------------------------------------------------------------------
(* Text *)

Lit(tag, n) == <<tag, n>>

RECURSIVE TextLen(_)
\* String::len(): the byte length of a text
TextLen(t) == IF t = <<>> THEN 0 ELSE Head(t)[2] + TextLen(Tail(t))

RECURSIVE SumLens(_)
\* sum of the byte lengths of a sequence of texts
SumLens(ts) == IF ts = <<>> THEN 0 ELSE TextLen(Head(ts)) + SumLens(Tail(ts))

----------------------------------------------------------------------------
(* Inputs of the accumulator *)

DEFAULT_MAX_CONTEXT == 16 * 1024

\* base prompts, by byte length
PromptLens == {5, 8192, 8196, 16384, 16388, 32768, 32772, 65536, 65540}

\* explicit ceilings a caller passes to max_context()
CeilingChoices == {0, 10000, 20000}

\* candidate paths: name, its byte length, extension, its byte length
Paths == { [p |-> "a.rs",  plen |-> 4, ext |-> "rs",  elen |-> 2],
           [p |-> "b.pdf", plen |-> 5, ext |-> "pdf", elen |-> 3] }

\* what content extraction yields for a path: a text, or a failure
FileContentLens == {0, 39979}
ExtractFail == <<Lit("!extract-failed", 0)>>
Extractions(path) == { <<Lit(path.p, n)>> : n \in FileContentLens } \cup {ExtractFail}

\* documents offered to add_document, by name and byte length
Documents == { <<Lit("d3", 3)>>, <<Lit("d25536", 25536)>>, <<Lit("d40000", 40000)>>,
               <<Lit("d80004", 80004)>> }

\* byte lengths of the text before and after the single placeholder of
\* prompt_context_templete.in; the file is read at compile time and its
\* content is left open here
TemplateShapes == { <<0, 0>>, <<31, 1>> }

----------------------------------------------------------------------------
(* PromptBuilder *)

NoStats == [file_count |-> 0, document_count |-> 0, total_content_len |-> 0,
            context_len_estimated |-> 0, prompt_context_len_estimated |-> 0,
            max_context |-> 0]

Call(op, arg, res, ret) == [op |-> op, arg |-> arg, res |-> res, ret |-> ret,
                            prompt |-> <<>>, stats |-> NoStats]

\* format!("path: {}\n```{}\n{}\n```", ..): "nl" is a newline, "fence" three backticks
RenderFile(path, content) ==
    <<Lit("path: ", 6), Lit(path.p, path.plen), Lit("nl-fence", 4),
      Lit(path.ext, path.elen), Lit("nl", 1)>> \o content \o <<Lit("nl-fence", 4)>>

BudgetExceeded_ge(total, content_len, mc) ==
    LET c == OptionOr(mc, Some(DEFAULT_MAX_CONTEXT)).v
    IN  (total + content_len) \div 4 >= c

BudgetExceeded_total_only(total, content_len, mc) ==
    LET c == OptionOr(mc, Some(DEFAULT_MAX_CONTEXT)).v
    IN  total \div 4 > c

BudgetExceeded_own_only(total, content_len, mc) ==
    LET c == OptionOr(mc, Some(DEFAULT_MAX_CONTEXT)).v
    IN  content_len \div 4 > c

BudgetExceeded_default_only(total, content_len, mc) ==
    LET c == OptionOr(Some(DEFAULT_MAX_CONTEXT), mc).v
    IN  (total + content_len) \div 4 > c

\* the admission check of add_file and add_document
BudgetExceeded(total, content_len, mc) ==
    LET c == OptionOr(mc, Some(DEFAULT_MAX_CONTEXT)).v
    IN  (total + content_len) \div 4 > c

\* PromptBuilder::new
new(p) ==
    /\ prompt = <<Lit("prompt", p)>>
    /\ files = <<>>
    /\ documents = <<>>
    /\ total_content_len = 0
    /\ max_context = None

\* PromptBuilder::max_context
set_max_context(value) ==
    /\ max_context' = value
    /\ last' = Call("max_context", <<>>, "Ok", 0)
    /\ UNCHANGED <<prompt, files, documents, total_content_len, template>>

add_file_early_count(path, extracted) ==
    LET content == RenderFile(path, extracted)
        content_len == TextLen(content)
    IN  IF extracted = ExtractFail
        THEN /\ last' = Call("add_file", <<>>, "ContentExtractionError", 0)
             /\ UNCHANGED <<prompt, files, documents, total_content_len, max_context, template>>
        ELSE /\ total_content_len' = total_content_len + content_len
             /\ IF BudgetExceeded(total_content_len, content_len, max_context)
                THEN /\ last' = Call("add_file", content, "BudgetExceeded", 0)
                     /\ UNCHANGED files
                ELSE /\ files' = Append(files, <<path.p, content>>)
                     /\ last' = Call("add_file", content, "Ok", content_len)
             /\ UNCHANGED <<prompt, documents, max_context, template>>

\* PromptBuilder::add_file; extracted is what pdf_extract / read_to_string gives
add_file(path, extracted) ==
    LET content == RenderFile(path, extracted)
        content_len == TextLen(content)
    IN  IF extracted = ExtractFail
        THEN /\ last' = Call("add_file", <<>>, "ContentExtractionError", 0)
             /\ UNCHANGED <<prompt, files, documents, total_content_len, max_context, template>>
        ELSE IF BudgetExceeded(total_content_len, content_len, max_context)
        THEN /\ last' = Call("add_file", content, "BudgetExceeded", 0)
             /\ UNCHANGED <<prompt, files, documents, total_content_len, max_context, template>>
        ELSE /\ total_content_len' = total_content_len + content_len
             /\ files' = Append(files, <<path.p, content>>)
             /\ last' = Call("add_file", content, "Ok", content_len)
             /\ UNCHANGED <<prompt, documents, max_context, template>>

add_document_no_count(content) ==
    LET content_len == TextLen(content)
    IN  IF BudgetExceeded(total_content_len, content_len, max_context)
        THEN /\ last' = Call("add_document", content, "BudgetExceeded", 0)
             /\ UNCHANGED <<prompt, files, documents, total_content_len, max_context, template>>
        ELSE /\ documents' = Append(documents, content)
             /\ last' = Call("add_document", content, "Ok", content_len)
             /\ UNCHANGED <<prompt, files, total_content_len, max_context, template>>

\* PromptBuilder::add_document
add_document(content) ==
    LET content_len == TextLen(content)
    IN  IF BudgetExceeded(total_content_len, content_len, max_context)
        THEN /\ last' = Call("add_document", content, "BudgetExceeded", 0)
             /\ UNCHANGED <<prompt, files, documents, total_content_len, max_context, template>>
        ELSE /\ total_content_len' = total_content_len + content_len
             /\ documents' = Append(documents, content)
             /\ last' = Call("add_document", content, "Ok", content_len)
             /\ UNCHANGED <<prompt, files, max_context, template>>

RECURSIVE OfferDocuments(_, _, _, _)
\* add_document called for each candidate in turn on an accumulator that
\* holds docs with total bytes total and ceiling mc; the documents it ends with
OfferDocuments(candidates, docs, total, mc) ==
    IF candidates = <<>> THEN docs
    ELSE LET content == Head(candidates)
             content_len == TextLen(content)
         IN  IF BudgetExceeded(total, content_len, mc)
             THEN OfferDocuments(Tail(candidates), docs, total, mc)
             ELSE OfferDocuments(Tail(candidates), Append(docs, content),
                                 total + content_len, mc)

RECURSIVE FoldFiles(_)
\* self.files.iter().fold(String::new(), |acc, (.., content)| format!("{acc}\n{content}"))
FoldFiles(fs) ==
    IF fs = <<>> THEN <<>>
    ELSE FoldFiles(SubSeq(fs, 1, Len(fs) - 1)) \o <<Lit("nl", 1)>> \o fs[Len(fs)][2]

RECURSIVE Join(_, _)
\* [..].join(sep)
Join(ts, sep) ==
    IF ts = <<>> THEN <<>>
    ELSE IF Len(ts) = 1 THEN ts[1]
    ELSE ts[1] \o sep \o Join(Tail(ts), sep)

Context_unconditional(fs, ds) ==
    << <<Lit("<files>nl", 8)>> \o FoldFiles(fs) \o <<Lit("nl</files>", 9)>> >>
    \o
    << <<Lit("<documents>nl", 12)>> \o Join(ds, <<Lit("nl", 1)>>)
       \o <<Lit("nl</documents>", 13)>> >>

\* the context vector of build()
Context(fs, ds) ==
    (IF fs # <<>>
     THEN << <<Lit("<files>nl", 8)>> \o FoldFiles(fs) \o <<Lit("nl</files>", 9)>> >>
     ELSE <<>>)
    \o
    (IF ds # <<>>
     THEN << <<Lit("<documents>nl", 12)>> \o Join(ds, <<Lit("nl", 1)>>)
             \o <<Lit("nl</documents>", 13)>> >>
     ELSE <<>>)

\* format!(include_str!("prompt_context_templete.in"), ctx)
FormatTemplate(tpl, ctx) ==
    <<Lit("template-prefix", tpl[1])>> \o ctx \o <<Lit("template-suffix", tpl[2])>>

\* the prompt text build() assembles
AssembledPrompt(p, fs, ds, tpl) ==
    LET context == Context(fs, ds)
    IN  IF context = <<>> THEN p
        ELSE Join(<<p, FormatTemplate(tpl, Join(context, <<Lit("nl", 1)>>))>>, <<Lit("nl", 1)>>)

RECURSIVE AlignedLoop_lazy(_, _)
AlignedLoop_lazy(aligned_context_len, estimated) ==
    IF aligned_context_len * 2 < estimated
    THEN AlignedLoop_lazy(aligned_context_len * 2, estimated)
    ELSE aligned_context_len

RECURSIVE AlignedLoop(_, _)
\* while aligned_context_len < prompt_context_len_estimated { aligned_context_len *= 2; }
AlignedLoop(aligned_context_len, estimated) ==
    IF aligned_context_len < estimated
    THEN AlignedLoop(aligned_context_len * 2, estimated)
    ELSE aligned_context_len

ResolveMaxContext_clamped(mc, estimated) ==
    IF mc.some THEN (IF mc.v > DEFAULT_MAX_CONTEXT THEN DEFAULT_MAX_CONTEXT ELSE mc.v)
    ELSE IF estimated > DEFAULT_MAX_CONTEXT THEN DEFAULT_MAX_CONTEXT
    ELSE LET aligned_context_len == AlignedLoop(2 * 1024, estimated)
         IN  IF aligned_context_len > DEFAULT_MAX_CONTEXT
             THEN DEFAULT_MAX_CONTEXT
             ELSE aligned_context_len

ResolveMaxContext_uncapped(mc, estimated) ==
    IF mc.some THEN mc.v ELSE AlignedLoop(2 * 1024, estimated)

\* the match that resolves max_context in build()
ResolveMaxContext(mc, estimated) ==
    IF mc.some THEN mc.v
    ELSE IF estimated > DEFAULT_MAX_CONTEXT THEN DEFAULT_MAX_CONTEXT
    ELSE LET aligned_context_len == AlignedLoop(2 * 1024, estimated)
         IN  IF aligned_context_len > DEFAULT_MAX_CONTEXT
             THEN DEFAULT_MAX_CONTEXT
             ELSE aligned_context_len

\* the pair build() returns for an accumulator with these fields
BuildOf(p, fs, ds, total, mc, tpl) ==
    LET text == AssembledPrompt(p, fs, ds, tpl)
        prompt_context_len_estimated == TextLen(text) \div 4
    IN  [op |-> "build", arg |-> <<>>, res |-> "Ok", ret |-> 0,
         prompt |-> text,
         stats |-> [file_count |-> Len(fs),
                    document_count |-> Len(ds),
                    total_content_len |-> total,
                    context_len_estimated |-> total \div 4,
                    prompt_context_len_estimated |-> prompt_context_len_estimated,
                    max_context |-> ResolveMaxContext(mc, prompt_context_len_estimated)]]

\* build() on the accumulator as it is now
BuildResult == BuildOf(prompt, files, documents, total_content_len, max_context, template)

build_memo ==
    /\ last' = BuildResult
    /\ max_context' = Some(last'.stats.max_context)
    /\ UNCHANGED <<prompt, files, documents, total_content_len, template>>

\* PromptBuilder::build (&self)
build ==
    /\ last' = BuildResult
    /\ UNCHANGED <<prompt, files, documents, total_content_len, max_context, template>>

Fragments == Len(files) + Len(documents)

InitPrompt ==
    /\ \E p \in PromptLens : new(p)
    /\ template \in TemplateShapes
    /\ last = Call("new", <<>>, "Ok", 0)

SetMaxContext ==
    /\ \E value \in {None} \cup {Some(c) : c \in CeilingChoices} : set_max_context(value)
    /\ UNCHANGED <<streamVars, cliVars>>

AddFile ==
    /\ Fragments < MaxFragments
    /\ \E path \in Paths : \E extracted \in Extractions(path) : add_file(path, extracted)
    /\ UNCHANGED <<streamVars, cliVars>>

AddDocument ==
    /\ Fragments < MaxFragments
    /\ \E content \in Documents : add_document(content)
    /\ UNCHANGED <<streamVars, cliVars>>

Build ==
    /\ build
    /\ UNCHANGED <<streamVars, cliVars>>

----------------------------------------------------------------------------
(* Wire bytes and serde_json::from_slice::<GenerateResponse> *)

\* field bytes: "a" and "b" are a response field with that text, "e" an error field
ResponseBytes == {"a", "b"}
ErrorBytes == {"e"}
FieldBytes == ResponseBytes \cup ErrorBytes
Whitespace == {"nl"}

\* one JSON record on the wire
Rec(f) == <<"{", f, "}">>

RECURSIVE SkipWs(_)
\* leading JSON whitespace is skipped
SkipWs(bytes) ==
    IF bytes # <<>> /\ Head(bytes) \in Whitespace THEN SkipWs(Tail(bytes)) ELSE bytes

RECURSIVE Reverse(_)
Reverse(s) == IF s = <<>> THEN <<>> ELSE Append(Reverse(Tail(s)), Head(s))

\* the bytes without leading and trailing whitespace
Trim(bytes) == Reverse(SkipWs(Reverse(SkipWs(bytes))))

IsWs(b) == b \in Whitespace
IsResponse(b) == b \in ResponseBytes
IsError(b) == b \in ErrorBytes
NotWs(b) == ~IsWs(b)

\* GenerateResponse (src/llm.rs:25-40), the fields the client looks at
Frame(body) ==
    [response |-> SelectSeq(body, IsResponse), error |-> SelectSeq(body, IsError)]

\* from_slice succeeds: one object and nothing but whitespace around it,
\* no key twice
ParseOk(bytes) ==
    LET t == Trim(bytes)
    IN  /\ Len(t) >= 2
        /\ t[1] = "{"
        /\ t[Len(t)] = "}"
        /\ \A i \in 2..(Len(t) - 1) : t[i] \in FieldBytes \cup Whitespace
        /\ Len(SelectSeq(t, IsResponse)) <= 1
        /\ Len(SelectSeq(t, IsError)) <= 1

\* the frame from_slice yields when it succeeds
Parse(bytes) ==
    LET t == Trim(bytes)
    IN  Frame(SelectSeq(SubSeq(t, 2, Len(t) - 1), NotWs))

\* chunk.error is Some
HasError(frame) == frame.error # <<>>

----------------------------------------------------------------------------
(* The response body and how the transport cuts it *)

RECURSIVE Body(_, _)
\* the records, one per line; the last newline may be missing
Body(recs, trailing) ==
    IF recs = <<>> THEN <<>>
    ELSE Rec(Head(recs)) \o (IF Len(recs) > 1 \/ trailing THEN <<"nl">> ELSE <<>>)
         \o Body(Tail(recs), trailing)

SetMax(S) == CHOOSE x \in S : \A y \in S : y <= x

RECURSIVE Split(_, _)
\* the chunks of a body cut after the positions in cuts
Split(text, cuts) ==
    IF text = <<>> THEN <<>>
    ELSE IF cuts = {} THEN <<text>>
    ELSE LET c == SetMax(cuts)
         IN  Append(Split(SubSeq(text, 1, c), cuts \ {c}), SubSeq(text, c + 1, Len(text)))

RecordSeqs == UNION { [1..n -> FieldBytes] : n \in 0..MaxRecords }

\* every way to cut a body into at most MaxChunks non-empty chunks
Chunkings(text) ==
    { Split(text, cuts) :
        cuts \in { S \in SUBSET (1..(Len(text) - 1)) : Cardinality(S) < MaxChunks } }

\* every chunk sequence bytes_stream() can deliver
Wires == UNION { Chunkings(Body(recs, trailing)) : recs \in RecordSeqs, trailing \in BOOLEAN }

----------------------------------------------------------------------------
(* LLMClient::generate_stream and LLMClient::generate_once *)

NoResponse == [status |-> "none", body |-> <<>>]

\* bodies a backend sends with a non-success status: a JSON object, a
\* body that is not JSON, an empty body
ErrorBodies == { Rec("e"), <<"{", "e">>, <<>> }

\* answers to the request: success (the body then arrives on the wire), or a
\* non-success status with its body
Responses ==
    { [status |-> "success", body |-> <<>>] }
    \cup { [status |-> "error", body |-> b] : b \in ErrorBodies }

\* response.json::<serde_json::Value>() succeeds
IsJsonValue(bytes) ==
    LET t == Trim(bytes)
    IN  /\ Len(t) >= 2
        /\ t[1] = "{"
        /\ t[Len(t)] = "}"
        /\ \A i \in 2..(Len(t) - 1) : t[i] \in FieldBytes \cup Whitespace

RECURSIVE Flatten(_)
\* the whole body, as response.json() reads it
Flatten(chunks) == IF chunks = <<>> THEN <<>> ELSE Head(chunks) \o Flatten(Tail(chunks))

InitStream ==
    /\ pc \in {"send", "once_send"}
    /\ wire \in Wires
    /\ nxt = 1
    /\ no_parsed_chunks = <<>>
    /\ emitted = <<>>
    /\ stopped = FALSE
    /\ result = "none"
    /\ response = NoResponse
    /\ payload = <<>>
    /\ generated = <<>>
    /\ completed = 0
    /\ pull_failed = FALSE

Finish(r) ==
    /\ pc' = "done"
    /\ result' = r

\* error_for_status_ref().is_err(): response.json().await? and the API error
StatusError(r) ==
    IF IsJsonValue(r.body)
    THEN /\ Finish("ApiStatusError")
         /\ payload' = r.body
    ELSE /\ Finish("ResponseBodyError")
         /\ UNCHANGED payload

\* generate_stream: self.client.post(..).json(..).send().await? and the status test
Send ==
    /\ pc = "send"
    /\ \/ /\ Finish("TransportError")
          /\ UNCHANGED <<response, payload>>
       \/ \E r \in Responses :
             /\ response' = r
             /\ IF r.status = "error"
                THEN StatusError(r)
                ELSE pc' = "pull" /\ UNCHANGED <<result, payload>>
    /\ UNCHANGED <<wire, nxt, no_parsed_chunks, emitted, stopped, generated, completed, pull_failed>>
    /\ UNCHANGED <<promptVars, cliVars>>

PullFail_as_end ==
    /\ pc = "pull"
    /\ pull_failed' = TRUE
    /\ pc' = "flush"
    /\ UNCHANGED <<wire, nxt, no_parsed_chunks, emitted, stopped, result, response, payload,
                   generated, completed>>
    /\ UNCHANGED <<promptVars, cliVars>>

\* stream.next() yields Some(Err(_)): chunk? returns the error
PullFail ==
    /\ pc = "pull"
    /\ pull_failed' = TRUE
    /\ Finish("TransportError")
    /\ UNCHANGED <<wire, nxt, no_parsed_chunks, emitted, stopped, response, payload,
                   generated, completed>>
    /\ UNCHANGED <<promptVars, cliVars>>

Pull_no_await ==
    /\ pc = "pull"
    /\ IF nxt > Len(wire)
       THEN /\ pc' = "flush"
            /\ UNCHANGED <<nxt, no_parsed_chunks, emitted, result>>
       ELSE LET chunk == wire[nxt]
            IN  /\ nxt' = nxt + 1
                /\ IF ParseOk(chunk)
                   THEN IF HasError(Parse(chunk))
                        THEN /\ Finish("LLMError")
                             /\ UNCHANGED <<no_parsed_chunks, emitted>>
                        ELSE /\ emitted' = Append(emitted, Parse(chunk))
                             /\ pc' = "pull"
                             /\ UNCHANGED <<no_parsed_chunks, result>>
                   ELSE /\ no_parsed_chunks' = no_parsed_chunks \o chunk
                        /\ pc' = "pull"
                        /\ UNCHANGED <<emitted, result>>
    /\ UNCHANGED <<wire, stopped, response, payload, generated, completed, pull_failed>>
    /\ UNCHANGED <<promptVars, cliVars>>

Pull_reparse ==
    /\ pc = "pull"
    /\ IF nxt > Len(wire)
       THEN /\ pc' = "flush"
            /\ UNCHANGED <<nxt, no_parsed_chunks, emitted, result>>
       ELSE LET chunk == wire[nxt]
                buffer == no_parsed_chunks \o chunk
            IN  /\ nxt' = nxt + 1
                /\ IF ParseOk(chunk)
                   THEN IF HasError(Parse(chunk))
                        THEN /\ Finish("LLMError")
                             /\ UNCHANGED <<no_parsed_chunks, emitted>>
                        ELSE /\ emitted' = Append(emitted, Parse(chunk))
                             /\ pc' = "on_chunk"
                             /\ UNCHANGED <<no_parsed_chunks, result>>
                   ELSE IF ParseOk(buffer) /\ ~HasError(Parse(buffer))
                        THEN /\ emitted' = Append(emitted, Parse(buffer))
                             /\ no_parsed_chunks' = <<>>
                             /\ pc' = "on_chunk"
                             /\ UNCHANGED result
                        ELSE /\ no_parsed_chunks' = buffer
                             /\ pc' = "pull"
                             /\ UNCHANGED <<emitted, result>>
    /\ UNCHANGED <<wire, stopped, response, payload, generated, completed, pull_failed>>
    /\ UNCHANGED <<promptVars, cliVars>>

\* one turn of the while loop up to the call of on_chunk
Pull ==
    /\ pc = "pull"
    /\ IF nxt > Len(wire)
       THEN /\ pc' = "flush"
            /\ UNCHANGED <<nxt, no_parsed_chunks, emitted, result>>
       ELSE LET chunk == wire[nxt]
            IN  /\ nxt' = nxt + 1
                /\ IF ParseOk(chunk)
                   THEN IF HasError(Parse(chunk))
                        THEN /\ Finish("LLMError")
                             /\ UNCHANGED <<no_parsed_chunks, emitted>>
                        ELSE /\ emitted' = Append(emitted, Parse(chunk))
                             /\ pc' = "on_chunk"
                             /\ UNCHANGED <<no_parsed_chunks, result>>
                   ELSE /\ no_parsed_chunks' = no_parsed_chunks \o chunk
                        /\ pc' = "pull"
                        /\ UNCHANGED <<emitted, result>>
    /\ UNCHANGED <<wire, stopped, response, payload, generated, completed, pull_failed>>
    /\ UNCHANGED <<promptVars, cliVars>>

\* on_chunk(chunk).await completes with stop
OnChunkReturn ==
    /\ pc = "on_chunk"
    /\ completed' = completed + 1
    /\ \E stop \in BOOLEAN :
          /\ stopped' = stop
          /\ pc' = IF stop THEN "flush" ELSE "pull"
    /\ UNCHANGED <<wire, nxt, no_parsed_chunks, emitted, result, response, payload,
                   generated, pull_failed>>
    /\ UNCHANGED <<promptVars, cliVars>>

Flush_drop ==
    /\ pc = "flush"
    /\ Finish("Ok")
    /\ UNCHANGED <<wire, nxt, no_parsed_chunks, emitted, stopped, response, payload,
                   generated, completed, pull_failed>>
    /\ UNCHANGED <<promptVars, cliVars>>

\* after the loop: the buffer, if any, is parsed and handed to on_chunk
Flush ==
    /\ pc = "flush"
    /\ IF no_parsed_chunks # <<>>
       THEN IF ParseOk(no_parsed_chunks)
            THEN /\ emitted' = Append(emitted, Parse(no_parsed_chunks))
                 /\ pc' = "on_chunk_last"
                 /\ UNCHANGED result
            ELSE /\ Finish("FrameDecodeError")
                 /\ UNCHANGED emitted
       ELSE /\ Finish("Ok")
            /\ UNCHANGED emitted
    /\ UNCHANGED <<wire, nxt, no_parsed_chunks, stopped, response, payload, generated,
                   completed, pull_failed>>
    /\ UNCHANGED <<promptVars, cliVars>>

\* the last on_chunk completes; its result is dropped
OnChunkLastReturn ==
    /\ pc = "on_chunk_last"
    /\ completed' = completed + 1
    /\ Finish("Ok")
    /\ UNCHANGED <<wire, nxt, no_parsed_chunks, emitted, stopped, response, payload,
                   generated, pull_failed>>
    /\ UNCHANGED <<promptVars, cliVars>>

\* generate_once: send().await? and the status test
OnceSend ==
    /\ pc = "once_send"
    /\ \/ /\ Finish("TransportError")
          /\ UNCHANGED <<response, payload>>
       \/ \E r \in Responses :
             /\ response' = r
             /\ IF r.status = "error"
                THEN StatusError(r)
                ELSE pc' = "once_body" /\ UNCHANGED <<result, payload>>
    /\ UNCHANGED <<wire, nxt, no_parsed_chunks, emitted, stopped, generated, completed, pull_failed>>
    /\ UNCHANGED <<promptVars, cliVars>>

\* generate_once: response.json().await? of the whole body
OnceBody ==
    /\ pc = "once_body"
    /\ IF ParseOk(Flatten(wire))
       THEN /\ generated' = <<Parse(Flatten(wire))>>
            /\ Finish("Ok")
       ELSE /\ Finish("ResponseBodyError")
            /\ UNCHANGED generated
    /\ UNCHANGED <<wire, nxt, no_parsed_chunks, emitted, stopped, response, payload,
                   completed, pull_failed>>
    /\ UNCHANGED <<promptVars, cliVars>>

CliIdle ==
    /\ paths_iter = <<>>
    /\ path_idx = 1

PromptIdle ==
    /\ new(5)
    /\ template = <<0, 0>>
    /\ last = Call("new", <<>>, "Ok", 0)

InitS == InitStream /\ PromptIdle /\ CliIdle

NextStream ==
    \/ Send \/ PullFail \/ Pull \/ OnChunkReturn \/ Flush \/ OnChunkLastReturn
    \/ OnceSend \/ OnceBody

SpecStream == InitS /\ [][NextStream]_vars

StreamIdle ==
    /\ pc = "idle"
    /\ wire = <<>>
    /\ nxt = 1
    /\ no_parsed_chunks = <<>>
    /\ emitted = <<>>
    /\ stopped = FALSE
    /\ result = "none"
    /\ response = NoResponse
    /\ payload = <<>>
    /\ generated = <<>>
    /\ completed = 0
    /\ pull_failed = FALSE

InitP == InitPrompt /\ StreamIdle /\ CliIdle

NextPrompt == SetMaxContext \/ AddFile \/ AddDocument \/ Build

SpecPrompt == InitP /\ [][NextPrompt]_vars

----------------------------------------------------------------------------
(* main: the admission loop over the enumerated paths (src/main.rs:147-190) *)

\* a candidate: a path and what reading it gives
Candidates ==
    UNION { { [path |-> p, extracted |-> e] : e \in Extractions(p) } : p \in Paths }

CandidateSeqs == UNION { [1..n -> Candidates] : n \in 0..MaxCandidates }

\* max_context.or(Some(DEFAULT_MAX_CONTEXT)) and the test of main.rs:181-182
CliBudgetExceeded(total, content_len, mc) ==
    LET c == OptionOr(mc, Some(16 * 1024)).v
    IN  (total + content_len) \div 4 > c

InitCli ==
    /\ pc = "cli_loop"
    /\ paths_iter \in CandidateSeqs
    /\ path_idx = 1
    /\ total_content_len = 0
    /\ documents = <<>>
    /\ max_context \in {None} \cup {Some(c) : c \in CeilingChoices}
    /\ prompt = <<Lit("prompt", 5)>>
    /\ files = <<>>
    /\ template = <<0, 0>>
    /\ last = Call("new", <<>>, "Ok", 0)
    /\ wire = <<>>
    /\ nxt = 1
    /\ no_parsed_chunks = <<>>
    /\ emitted = <<>>
    /\ stopped = FALSE
    /\ result = "none"
    /\ response = NoResponse
    /\ payload = <<>>
    /\ generated = <<>>
    /\ completed = 0
    /\ pull_failed = FALSE

CliNext_continue ==
    /\ pc = "cli_loop"
    /\ IF path_idx > Len(paths_iter)
       THEN /\ pc' = "cli_admitted"
            /\ UNCHANGED <<path_idx, total_content_len, documents>>
       ELSE LET path == paths_iter[path_idx].path
                extracted == paths_iter[path_idx].extracted
                content == RenderFile(path, extracted)
            IN  /\ path_idx' = path_idx + 1
                /\ pc' = "cli_loop"
                /\ IF extracted = ExtractFail
                      \/ CliBudgetExceeded(total_content_len, TextLen(content), max_context)
                   THEN UNCHANGED <<total_content_len, documents>>
                   ELSE /\ total_content_len' = total_content_len + TextLen(content)
                        /\ documents' = Append(documents, <<path.p, content>>)
    /\ UNCHANGED <<prompt, files, max_context, template, last, paths_iter>>
    /\ UNCHANGED <<wire, nxt, no_parsed_chunks, emitted, stopped, result, response, payload,
                   generated, completed, pull_failed>>

\* one turn of `for path in paths_iter`, or its end
CliNext ==
    /\ pc = "cli_loop"
    /\ IF path_idx > Len(paths_iter)
       THEN /\ pc' = "cli_admitted"
            /\ UNCHANGED <<path_idx, total_content_len, documents>>
       ELSE LET path == paths_iter[path_idx].path
                extracted == paths_iter[path_idx].extracted
                content == RenderFile(path, extracted)
            IN  /\ path_idx' = path_idx + 1
                /\ IF extracted = ExtractFail
                   THEN /\ pc' = "cli_loop"
                        /\ UNCHANGED <<total_content_len, documents>>
                   ELSE IF CliBudgetExceeded(total_content_len, TextLen(content), max_context)
                   THEN /\ pc' = "cli_admitted"
                        /\ UNCHANGED <<total_content_len, documents>>
                   ELSE /\ pc' = "cli_loop"
                        /\ total_content_len' = total_content_len + TextLen(content)
                        /\ documents' = Append(documents, <<path.p, content>>)
    /\ UNCHANGED <<prompt, files, max_context, template, last, paths_iter>>
    /\ UNCHANGED <<wire, nxt, no_parsed_chunks, emitted, stopped, result, response, payload,
                   generated, completed, pull_failed>>

NextCli == CliNext

SpecCli == InitCli /\ [][NextCli]_vars

----------------------------------------------------------------------------
(* Properties of generate_stream *)

\* C1: once on_chunk has returned true (stop), on_chunk is never invoked
\* again in that exchange and generate_stream returns Ok, whatever was
\* buffered before the stop and whatever chunks remain unread.
C1_EarlyStop ==
    /\ [][stopped => emitted' = emitted]_vars
    /\ [](stopped /\ pc = "done" => result = "Ok")

\* C2: no frame that carries an in-band error is ever passed to on_chunk,
\* whether it was decoded from one chunk or from the buffer at stream end;
\* the exchange fails with LLMError instead.
C2_InBandError ==
    /\ \A i \in 1..Len(emitted) : ~HasError(emitted[i])
    /\ (pc = "on_chunk_last" => ~HasError(Parse(no_parsed_chunks)))

\* the chunk sequences of C3: a proper prefix of R1, then the rest of R1,
\* a newline and the whole of R2
SplitThenWhole(w, f1, f2) ==
    /\ Len(w) = 2
    /\ \E k \in 1..2 : \E trailing \in BOOLEAN :
          /\ w[1] = SubSeq(Rec(f1), 1, k)
          /\ w[2] = SubSeq(Rec(f1), k + 1, 3) \o <<"nl">> \o Rec(f2)
                    \o (IF trailing THEN <<"nl">> ELSE <<>>)

\* C3: when the first chunk is a proper prefix of R1 and the second holds the
\* rest of R1, a newline and the whole of R2, an exchange that runs to its end
\* over a sound transport returns Ok and on_chunk has received exactly the
\* two frames R1, R2 in that order.
C3_SplitThenWhole ==
    \A f1 \in ResponseBytes : \A f2 \in ResponseBytes :
        (/\ SplitThenWhole(wire, f1, f2)
         /\ pc = "done"
         /\ response.status = "success"
         /\ nxt > Len(wire)
         /\ ~pull_failed)
        => /\ result = "Ok"
           /\ emitted = <<Frame(<<f1>>), Frame(<<f2>>)>>

----------------------------------------------------------------------------
(* Properties of PromptBuilder *)

IsAdd(call) == call.op \in {"add_file", "add_document"}

\* C4: with effective ceiling c (the explicit ceiling if set, otherwise
\* 16384), add_file / add_document of a fragment of byte length L on total T
\* is rejected with BudgetExceeded exactly when (T + L) \div 4 > c, and
\* otherwise appends the fragment, adds L to the total and returns L.
C4_AdmissionRule ==
    [][ (IsAdd(last') /\ last'.res # "ContentExtractionError") =>
          LET L == TextLen(last'.arg)
              c == IF max_context.some THEN max_context.v ELSE 16384
          IN  /\ last'.res \in {"Ok", "BudgetExceeded"}
              /\ (last'.res = "BudgetExceeded") <=> ((total_content_len + L) \div 4 > c)
              /\ last'.res = "Ok" =>
                    /\ last'.ret = L
                    /\ \/ /\ last'.op = "add_file"
                          /\ Len(files') = Len(files) + 1
                          /\ SubSeq(files', 1, Len(files)) = files
                          /\ files'[Len(files')][2] = last'.arg
                          /\ documents' = documents
                       \/ /\ last'.op = "add_document"
                          /\ documents' = Append(documents, last'.arg)
                          /\ files' = files
    ]_vars

\* the scenario of C4: default ceiling, 40000 bytes admitted, the next
\* 40000-byte fragment rejected
C4_Witness ==
    /\ ~max_context.some
    /\ total_content_len = 40000
    /\ IsAdd(last)
    /\ last.res = "BudgetExceeded"
    /\ TextLen(last.arg) = 40000

\* C5: an add_file or add_document call that returns an error leaves files,
\* documents, total_content_len and the explicit ceiling as they were.
C5_FailedAdmissionUnchanged ==
    [][ (IsAdd(last') /\ last'.res # "Ok") =>
          UNCHANGED <<files, documents, total_content_len, max_context>> ]_vars

\* a rejected add_file on an accumulator that already holds a fragment
C5_Witness ==
    /\ last.op = "add_file"
    /\ last.res = "BudgetExceeded"
    /\ Fragments = 1

FileContents == [i \in 1..Len(files) |-> files[i][2]]

\* C6: total_content_len is the sum of the byte lengths of the admitted file
\* fragments and documents, after every call.
C6_SumInvariant ==
    total_content_len = SumLens(FileContents) + SumLens(documents)

\* files and documents both admitted, seen from a later call
C6_Witness ==
    /\ files # <<>>
    /\ documents # <<>>
    /\ last.op \in {"build", "max_context"}
    /\ total_content_len > 0

\* C7 as stated: with no explicit ceiling, build() returns a max_context that
\* is at least prompt_context_len_estimated and at most 16384.
C7_CoversPrompt ==
    (last.op = "build" /\ ~max_context.some) =>
        /\ last.stats.max_context >= last.stats.prompt_context_len_estimated
        /\ last.stats.max_context <= 16384

\* C7 as amended: with no explicit ceiling, build() returns a max_context of at
\* most 16384 that is at least prompt_context_len_estimated whenever that
\* estimate is itself at most 16384; for a larger estimate it is 16384.
C7_CoversPromptUpToDefault ==
    (last.op = "build" /\ ~max_context.some) =>
        /\ last.stats.max_context <= 16384
        /\ last.stats.prompt_context_len_estimated <= 16384 =>
              last.stats.max_context >= last.stats.prompt_context_len_estimated
        /\ last.stats.prompt_context_len_estimated > 16384 =>
              last.stats.max_context = 16384

\* a build whose estimate needed at least one doubling and still fits
C7_Witness ==
    /\ last.op = "build"
    /\ ~max_context.some
    /\ last.stats.prompt_context_len_estimated > 2048
    /\ last.stats.prompt_context_len_estimated <= 16384
    /\ Fragments > 0

AutoValues == {2048, 4096, 8192, 16384}

\* estimates around every step of the sizing
EstimateSamples ==
    {0, 1, 2047, 2048, 2049, 4095, 4096, 4097, 8191, 8192, 8193,
     16383, 16384, 16385, 40000}

\* C8: with no explicit ceiling, build() returns the smallest of 2048, 4096,
\* 8192, 16384 that is >= prompt_context_len_estimated, and 16384 when there
\* is none; the value never decreases as the estimate grows.
C8_AutoValues ==
    (last.op = "build" /\ ~max_context.some) =>
          LET est == last.stats.prompt_context_len_estimated
              mc == last.stats.max_context
              fit == { v \in AutoValues : v >= est }
          IN  /\ mc \in AutoValues
              /\ fit # {} => (mc \in fit /\ \A v \in fit : mc <= v)
              /\ fit = {} => mc = 16384
              /\ \A e \in EstimateSamples :
                    /\ e <= est => ResolveMaxContext(None, e) <= mc
                    /\ e >= est => ResolveMaxContext(None, e) >= mc

\* a build that resolved to a value strictly between baseline and default
C8_Witness ==
    /\ last.op = "build"
    /\ ~max_context.some
    /\ last.stats.max_context \in {4096, 8192}

\* C9: when an explicit ceiling c is set, build() reports max_context = c
\* for every content and base prompt, also when c is below the estimated
\* prompt size or above the module default.
C9_ExplicitWins ==
    (last.op = "build" /\ max_context.some) =>
        last.stats.max_context = max_context.v

\* an explicit ceiling above the default and below the estimated prompt size
C9_Witness ==
    /\ last.op = "build"
    /\ max_context.some
    /\ max_context.v > 16384
    /\ last.stats.prompt_context_len_estimated > max_context.v
    /\ last.stats.max_context = max_context.v

\* C10: build() changes no field of the accumulator, and a build() that
\* follows it with no call in between returns the same prompt text and the
\* same stats.
C10_BuildPure ==
    [][ last'.op = "build" =>
          /\ UNCHANGED <<prompt, files, documents, total_content_len, max_context>>
          /\ BuildOf(prompt', files', documents', total_content_len', max_context', template') = last'
          /\ (last.op = "build" => last' = last) ]_vars

\* a build of an accumulator holding a file and a document
C10_Witness ==
    /\ last.op = "build"
    /\ last.stats.file_count > 0
    /\ last.stats.document_count > 0
    /\ last.prompt # prompt

\* the ceiling an admission check uses
EffectiveCeiling(mc) == IF mc.some THEN mc.v ELSE 16384

\* C11: a candidate whose own byte length / 4 exceeds the ceiling in force at
\* the call is rejected with BudgetExceeded and is not admitted, whatever was
\* admitted or rejected before it.
C11_OversizedNeverAdmitted ==
    [][ (/\ IsAdd(last')
         /\ last'.res # "ContentExtractionError"
         /\ TextLen(last'.arg) \div 4 > EffectiveCeiling(max_context))
        => /\ last'.res = "BudgetExceeded"
           /\ files' = files
           /\ documents' = documents
           /\ total_content_len' = total_content_len ]_vars

\* an oversized candidate rejected by an empty accumulator, default ceiling
C11_Witness ==
    /\ IsAdd(last)
    /\ last.res = "BudgetExceeded"
    /\ total_content_len = 0
    /\ ~max_context.some
    /\ TextLen(last.arg) \div 4 > 16384

SeqSet(q) == { q[i] : i \in 1..Len(q) }

\* the ceilings a caller can set, the one now in force among them
Ceilings == {max_context} \cup {None} \cup {Some(c) : c \in CeilingChoices}

\* C12: there are a ceiling and two candidates such that offering them to a
\* new accumulator in the two possible orders ends with two different sets
\* of admitted documents.
C12_OrderDependence ==
    \E mc \in Ceilings : \E a \in Documents : \E b \in Documents :
        SeqSet(OfferDocuments(<<a, b>>, <<>>, 0, mc))
            # SeqSet(OfferDocuments(<<b, a>>, <<>>, 0, mc))

\* one order played out: a admitted, b rejected, where the other order would
\* have admitted b and left a out
C12_Witness ==
    /\ max_context.some
    /\ files = <<>>
    /\ Len(documents) = 1
    /\ last.op = "add_document"
    /\ last.res = "BudgetExceeded"
    /\ OfferDocuments(<<documents[1], last.arg>>, <<>>, 0, max_context) = documents
    /\ OfferDocuments(<<last.arg, documents[1]>>, <<>>, 0, max_context) = <<last.arg>>

\* the admitted bytes / 4 are within the ceiling the admission check uses
WithinCeiling == total_content_len \div 4 <= EffectiveCeiling(max_context)

\* C19: an empty accumulator is within its ceiling, every call that leaves
\* the explicit ceiling as it is keeps the accumulator within it, and build()
\* on an accumulator within its ceiling reports context_len_estimated <=
\* max_context; so the bound holds whenever the ceiling is not changed after
\* the first admission.  (Lowering the ceiling later can break it: the witness.)
C19_FitsWindow ==
    /\ [](Fragments = 0 => WithinCeiling)
    /\ [][ (WithinCeiling /\ max_context' = max_context) => WithinCeiling' ]_vars
    /\ []((last.op = "build" /\ WithinCeiling) =>
             last.stats.context_len_estimated <= last.stats.max_context)

\* a build after the ceiling was lowered under already admitted fragments:
\* the reported window is smaller than the admitted content
C19_Witness ==
    /\ last.op = "build"
    /\ Fragments > 0
    /\ max_context.some
    /\ ~WithinCeiling
    /\ last.stats.context_len_estimated > last.stats.max_context

----------------------------------------------------------------------------
(* Further properties of generate_stream and generate_once *)

\* C13: when the chunk source is exhausted with a non-empty buffer, the
\* buffer is parsed once as one record, which is handed to on_chunk, after
\* which the call returns Ok with no further invocation; when that parse
\* fails the call fails with FrameDecodeError; with an empty buffer the call
\* returns Ok without invoking on_chunk.
C13_FlushAtEnd ==
    /\ [][ (pc = "flush" /\ ~stopped /\ nxt > Len(wire)) =>
             IF no_parsed_chunks = <<>>
             THEN pc' = "done" /\ result' = "Ok" /\ emitted' = emitted
             ELSE IF ParseOk(no_parsed_chunks)
             THEN /\ emitted' = Append(emitted, Parse(no_parsed_chunks))
                  /\ pc' = "on_chunk_last"
             ELSE pc' = "done" /\ result' = "FrameDecodeError" /\ emitted' = emitted
       ]_vars
    /\ [][ pc = "on_chunk_last" =>
             pc' = "done" /\ result' = "Ok" /\ emitted' = emitted ]_vars

\* a record cut over two chunks, emitted from the buffer at stream end
\* after a frame decoded from a chunk of its own
C13_Witness ==
    /\ pc = "on_chunk_last"
    /\ ~stopped
    /\ nxt > Len(wire)
    /\ Len(wire) = 3
    /\ Len(emitted) = 2
    /\ no_parsed_chunks = wire[2] \o wire[3]

\* C14 as stated: when the backend answers with a non-success status, the
\* call fails with ApiStatusError carrying the response body, on_chunk is
\* never invoked and no chunk is deframed.
C14_StatusError ==
    (response.status = "error" /\ pc = "done") =>
        /\ result = "ApiStatusError"
        /\ payload = response.body
        /\ emitted = <<>>
        /\ nxt = 1
        /\ no_parsed_chunks = <<>>
        /\ generated = <<>>

\* C15 as stated: whenever a chunk has parsed on its own and is being handed
\* to on_chunk, the accumulation buffer is empty.
C15_BufferEmptyOnEmit ==
    pc = "on_chunk" => no_parsed_chunks = <<>>

\* C16: at most one on_chunk invocation is in progress, and neither the next
\* chunk is pulled nor another on_chunk started while one is in progress.
C16_ConsumerPaced ==
    /\ [](Len(emitted) - completed \in {0, 1})
    /\ [][ nxt' # nxt => completed = Len(emitted) ]_vars
    /\ [][ Len(emitted') > Len(emitted) => completed = Len(emitted) ]_vars

\* the second frame is with on_chunk after the first invocation completed
\* and a further chunk was pulled
C16_Witness ==
    /\ pc = "on_chunk"
    /\ completed = 1
    /\ Len(emitted) = 2
    /\ nxt >= 3

\* C17: the step at which a pull fails ends the call with TransportError,
\* and from then on no chunk is pulled, on_chunk is not invoked and the
\* buffered bytes are neither parsed nor emitted.
C17_TransportTerminal ==
    /\ [][ (pull_failed' /\ ~pull_failed) =>
             /\ pc' = "done"
             /\ result' = "TransportError"
             /\ emitted' = emitted
             /\ nxt' = nxt ]_vars
    /\ [][ pull_failed => UNCHANGED <<pc, result, emitted, nxt, completed>> ]_vars

\* a pull fails after a frame was delivered, with bytes in the buffer that
\* would parse as a record
C17_Witness ==
    /\ pull_failed
    /\ result = "TransportError"
    /\ ParseOk(no_parsed_chunks)
    /\ Len(emitted) = 1
    /\ completed = 1

\* b extends a
IsPrefix(a, b) == Len(a) <= Len(b) /\ SubSeq(b, 1, Len(a)) = a

\* C18: while chunks are pulled the buffer only grows and every frame handed
\* to on_chunk is the parse of the chunk just pulled; the only frame that
\* comes from the buffer is handed over after the loop, and no frame follows
\* it.
C18_BufferedFrameLast ==
    [][ /\ pc = "pull" =>
             /\ IsPrefix(no_parsed_chunks, no_parsed_chunks')
             /\ emitted' # emitted =>
                   /\ nxt <= Len(wire)
                   /\ ParseOk(wire[nxt])
                   /\ emitted' = Append(emitted, Parse(wire[nxt]))
        /\ pc = "on_chunk" =>
             emitted' = emitted /\ no_parsed_chunks' = no_parsed_chunks
        /\ (pc = "flush" /\ emitted' # emitted) =>
             /\ emitted' = Append(emitted, Parse(no_parsed_chunks))
             /\ pc' = "on_chunk_last"
        /\ pc \in {"on_chunk_last", "done"} => emitted' = emitted
    ]_vars

\* record a is first on the wire, cut over two chunks, record b follows in a
\* chunk of its own: b is delivered first, a last
C18_Witness ==
    /\ pc = "on_chunk_last"
    /\ Len(wire) = 3
    /\ IsPrefix(Rec("a"), Flatten(wire))
    /\ emitted = <<Frame(<<"b">>), Frame(<<"a">>)>>

----------------------------------------------------------------------------
(* Properties of the admission loop of main *)

Readable(i) == paths_iter[i].extracted # ExtractFail
RenderedLen(i) == TextLen(RenderFile(paths_iter[i].path, paths_iter[i].extracted))

RECURSIVE ReadableBytesBefore(_)
\* bytes of the rendered readable candidates that precede candidate i
ReadableBytesBefore(i) ==
    IF i <= 1 THEN 0
    ELSE ReadableBytesBefore(i - 1) + (IF Readable(i - 1) THEN RenderedLen(i - 1) ELSE 0)

\* candidate i is readable and does not fit on top of the readable ones before it
Overflows(i) ==
    /\ Readable(i)
    /\ (ReadableBytesBefore(i) + RenderedLen(i)) \div 4 > EffectiveCeiling(max_context)

\* index of the first overflowing candidate, or one past the last candidate
FirstOverflow ==
    IF \E i \in 1..Len(paths_iter) : Overflows(i)
    THEN CHOOSE i \in 1..Len(paths_iter) :
            Overflows(i) /\ \A j \in 1..(i - 1) : ~Overflows(j)
    ELSE Len(paths_iter) + 1

RECURSIVE ReadableUpTo(_)
\* the readable candidates among the first n, rendered, in enumeration order
ReadableUpTo(n) ==
    IF n = 0 THEN <<>>
    ELSE IF Readable(n)
         THEN Append(ReadableUpTo(n - 1),
                     <<paths_iter[n].path.p,
                       RenderFile(paths_iter[n].path, paths_iter[n].extracted)>>)
         ELSE ReadableUpTo(n - 1)

\* C20: when the loop is over, the admitted documents are exactly the
\* readable candidates that precede the first overflowing one, in
\* enumeration order: unreadable ones are skipped, and nothing after the
\* first overflow is admitted.
C20_AdmissionLoop ==
    pc = "cli_admitted" =>
        /\ documents = ReadableUpTo(FirstOverflow - 1)
        /\ total_content_len = ReadableBytesBefore(FirstOverflow)

\* an unreadable candidate was skipped, a later one admitted, a third
\* overflowed, and a candidate after it would still have fit
C20_Witness ==
    /\ pc = "cli_admitted"
    /\ documents # <<>>
    /\ FirstOverflow < Len(paths_iter)
    /\ \E i \in 1..(FirstOverflow - 1) : ~Readable(i)
    /\ \E j \in (FirstOverflow + 1)..Len(paths_iter) :
          /\ Readable(j)
          /\ (total_content_len + RenderedLen(j)) \div 4 <= EffectiveCeiling(max_context)

\* where a literal stands in a text
Positions(text, tag) == { i \in 1..Len(text) : text[i][1] = tag }

\* the single position of a literal that stands exactly once in a text
Position(text, tag) == CHOOSE i \in Positions(text, tag) : TRUE

\* an envelope: one opening literal, one closing literal, in this order
HasEnvelope(text, open, close) ==
    /\ Cardinality(Positions(text, open)) = 1
    /\ Cardinality(Positions(text, close)) = 1
    /\ Position(text, open) < Position(text, close)

\* the text between the two literals of an envelope
Inside(text, open, close) ==
    SubSeq(text, Position(text, open) + 1, Position(text, close) - 1)

RECURSIVE InOrder(_, _)
\* the fragments stand in the text one after the other, in this order
InOrder(text, frags) ==
    IF frags = <<>> THEN TRUE
    ELSE LET f == Head(frags)
             ks == { k \in 1..(Len(text) - Len(f) + 1) : SubSeq(text, k, k + Len(f) - 1) = f }
         IN  /\ ks # {}
             /\ LET k == CHOOSE x \in ks : \A y \in ks : x <= y
                 IN  InOrder(SubSeq(text, k + Len(f), Len(text)), Tail(frags))

\* the rendered contents of the admitted files, in admission order
AdmittedFiles == [i \in 1..Len(files) |-> files[i][2]]

\* C21: the prompt build() returns is the base prompt verbatim exactly when
\* no fragment is admitted; otherwise it begins with the base prompt, holds a
\* files envelope exactly when a file is admitted and a documents envelope
\* exactly when a document is admitted, the files envelope before the
\* documents envelope, and inside each envelope the admitted fragments in
\* admission order.
C21_BuildEnvelopes ==
    last.op = "build" =>
        LET text == last.prompt
            anyFilesTag == Positions(text, "<files>nl") \cup Positions(text, "nl</files>") # {}
            anyDocumentsTag ==
                Positions(text, "<documents>nl") \cup Positions(text, "nl</documents>") # {}
        IN  /\ (text = prompt) <=> (files = <<>> /\ documents = <<>>)
            /\ IsPrefix(prompt, text)
            /\ anyFilesTag <=> files # <<>>
            /\ anyDocumentsTag <=> documents # <<>>
            /\ files # <<>> =>
                  /\ HasEnvelope(text, "<files>nl", "nl</files>")
                  /\ InOrder(Inside(text, "<files>nl", "nl</files>"), AdmittedFiles)
            /\ documents # <<>> =>
                  /\ HasEnvelope(text, "<documents>nl", "nl</documents>")
                  /\ InOrder(Inside(text, "<documents>nl", "nl</documents>"), documents)
            /\ (files # <<>> /\ documents # <<>>) =>
                  Position(text, "nl</files>") < Position(text, "<documents>nl")

\* a build over one admitted file and one admitted document: both envelopes
\* stand in the returned prompt
C21_Witness ==
    /\ last.op = "build"
    /\ Len(files) = 1
    /\ Len(documents) = 1
    /\ Positions(last.prompt, "<files>nl") # {}
    /\ Positions(last.prompt, "<documents>nl") # {}

====
